---------------------------- MODULE Spec2Model ----------------------------
(***************************************************************************)
(* A model of the Google Workspace tool server of src/main.py: the module  *)
(* start-up (credential check, credential object, service clients, tool    *)
(* registration), the eight tool handlers, the body extraction helper      *)
(* get_email_body and the base64url / UTF-8 conversions the handlers use.  *)
(*                                                                         *)
(* Representation.  A Python str whose characters matter (message text,    *)
(* base64 data) is a sequence of code points; a bytes object is a sequence *)
(* of numbers 0..255.  Identifiers and error messages are TLA+ strings.    *)
(* An optional dictionary key or a None-able argument is an Opt value:     *)
(* Absent (key missing / None) or Some(x).                                 *)
(***************************************************************************)
EXTENDS Integers, Sequences, FiniteSets, TLC

VARIABLES
    phase,        \* "boot" | "aborted" | "serving" | "unit"
    env,          \* the three OAuth settings read at lines 23-25
    credentials,  \* the Credentials object of line 31 (built, token)
    services,     \* the API clients built at lines 44-45
    tools,        \* the tool names registered with FastMCP
    contacted,    \* whether any request has left the process
    last,         \* the tool invocation in progress (Idle when none)
    probe         \* a direct call of get_email_body (argument, outcome)

vars == <<phase, env, credentials, services, tools, contacted, last, probe>>

(***************************************************************************)
(* Bounds of the model.                                                    *)
(***************************************************************************)
MaxParts == 2
MaxMessages == 2
MaxEvents == 2
MaxBodyLen == 2

(***************************************************************************)
(* Optional values.                                                        *)
(***************************************************************************)
Absent == [has |-> FALSE]
Some(x) == [has |-> TRUE, val |-> x]

\* Python truthiness of an optional str / list: None and the empty value
\* are both falsy.
Truthy(o) == o.has /\ o.val /= <<>>

\* The same for values that are TLA+ strings.
TruthyStr(o) == o.has /\ o.val /= ""

(***************************************************************************)
(* UTF-8, as str.encode() and bytes.decode("utf-8") compute it.            *)
(***************************************************************************)
EncOk(bytes) == [ok |-> TRUE, val |-> bytes]
EncErr(e) == [ok |-> FALSE, exc |-> e]

Utf8EncodeChar(cp) ==
    IF cp < 128 THEN <<cp>>
    ELSE IF cp < 2048 THEN <<192 + (cp \div 64), 128 + (cp % 64)>>
    ELSE IF cp < 65536
         THEN <<224 + (cp \div 4096), 128 + ((cp \div 64) % 64),
                128 + (cp % 64)>>
    ELSE <<240 + (cp \div 262144), 128 + ((cp \div 4096) % 64),
           128 + ((cp \div 64) % 64), 128 + (cp % 64)>>

IsSurrogate(cp) == cp >= 55296 /\ cp <= 57343

\* The encoding of text[lo..hi], halving the range.
RECURSIVE Utf8EncodeRange(_, _, _)
Utf8EncodeRange(text, lo, hi) ==
    IF lo > hi THEN <<>>
    ELSE IF lo = hi THEN Utf8EncodeChar(text[lo])
    ELSE LET mid == (lo + hi) \div 2 IN
         Utf8EncodeRange(text, lo, mid) \o Utf8EncodeRange(text, mid + 1, hi)

\* str.encode(): a lone surrogate cannot be encoded.
Utf8Encode(text) ==
    IF \E i \in 1..Len(text) : IsSurrogate(text[i])
    THEN EncErr("UnicodeEncodeError")
    ELSE EncOk(Utf8EncodeRange(text, 1, Len(text)))

IsCont(b) == b >= 128 /\ b <= 191

\* A character starts at every byte that is not a continuation byte; the
\* bytes from one start up to the next must be one well-formed sequence.
Utf8SeqOk(bytes, a, b) ==
    LET b0 == bytes[a]
        b1 == bytes[a + 1]
    IN  CASE b - a = 0 -> b0 < 128
          [] b - a = 1 -> b0 >= 194 /\ b0 <= 223
          [] b - a = 2 -> /\ b0 >= 224 /\ b0 <= 239
                          /\ b1 >= (IF b0 = 224 THEN 160 ELSE 128)
                          /\ b1 <= (IF b0 = 237 THEN 159 ELSE 191)
          [] b - a = 3 -> /\ b0 >= 240 /\ b0 <= 244
                          /\ b1 >= (IF b0 = 240 THEN 144 ELSE 128)
                          /\ b1 <= (IF b0 = 244 THEN 143 ELSE 191)
          [] OTHER -> FALSE

Utf8SeqValue(bytes, a, b) ==
    CASE b - a = 0 -> bytes[a]
      [] b - a = 1 -> (bytes[a] - 192) * 64 + (bytes[a + 1] - 128)
      [] b - a = 2 -> (bytes[a] - 224) * 4096 + (bytes[a + 1] - 128) * 64
                      + (bytes[a + 2] - 128)
      [] OTHER -> (bytes[a] - 240) * 262144 + (bytes[a + 1] - 128) * 4096
                  + (bytes[a + 2] - 128) * 64 + (bytes[a + 3] - 128)

\* bytes.decode("utf-8"), strict.
Utf8Decode(bytes) ==
    LET n == Len(bytes)
        IsStart(i) == ~IsCont(bytes[i])
        starts == SelectSeq([i \in 1..n |-> i], IsStart)
        m == Len(starts)
        endOf(k) == IF k = m THEN n ELSE starts[k + 1] - 1
    IN  IF n > 0 /\ IsCont(bytes[1]) THEN EncErr("UnicodeDecodeError")
        ELSE IF \E k \in 1..m : ~Utf8SeqOk(bytes, starts[k], endOf(k))
        THEN EncErr("UnicodeDecodeError")
        ELSE EncOk([k \in 1..m |-> Utf8SeqValue(bytes, starts[k], endOf(k))])

(***************************************************************************)
(* URL-safe base64, as base64.urlsafe_b64encode / urlsafe_b64decode        *)
(* compute it on characters: A-Z a-z 0-9 - _ and the pad character =.      *)
(***************************************************************************)
PadChar == 61

B64Char(d) ==
    IF d < 26 THEN 65 + d
    ELSE IF d < 52 THEN 97 + (d - 26)
    ELSE IF d < 62 THEN 48 + (d - 52)
    ELSE IF d = 62 THEN 45
    ELSE 95

\* The digit of a character, -1 for a character outside the alphabet.
\* The decoder maps - and _ onto + (43) and / (47) first, so all four count.
B64Digit(c) ==
    IF c >= 65 /\ c <= 90 THEN c - 65
    ELSE IF c >= 97 /\ c <= 122 THEN c - 97 + 26
    ELSE IF c >= 48 /\ c <= 57 THEN c - 48 + 52
    ELSE IF c = 45 \/ c = 43 THEN 62
    ELSE IF c = 95 \/ c = 47 THEN 63
    ELSE -1

\* Three bytes give four characters; a last group of one or two bytes is
\* filled up with pad characters.  Character k of the output:
urlsafe_b64encode(bytes) ==
    LET n == Len(bytes)
        At(i) == IF i <= n THEN bytes[i] ELSE 0
    IN  [k \in 1..(4 * ((n + 2) \div 3)) |->
            LET g == 3 * ((k - 1) \div 4)
                j == (k - 1) % 4
            IN  CASE j = 0 -> B64Char(At(g + 1) \div 4)
                  [] j = 1 -> B64Char((At(g + 1) % 4) * 16 + (At(g + 2) \div 16))
                  [] j = 2 -> IF g + 2 > n THEN PadChar
                              ELSE B64Char((At(g + 2) % 16) * 4
                                           + (At(g + 3) \div 64))
                  [] OTHER -> IF g + 3 > n THEN PadChar
                              ELSE B64Char(At(g + 3) % 64)]

\* The non-strict decoder reads the characters in order and keeps the
\* position in the current quad.  Characters outside the alphabet are
\* skipped.  A pad character met at quad position 2 or 3 is counted, the
\* count starting again after every digit; when position plus count
\* reaches 4 the parse ends there and the rest of the input is ignored.
\* A quad left open at the end of the input is an error.
urlsafe_b64decode(s) ==
    LET n == Len(s)
        IsDigitChar(c) == B64Digit(c) /= -1
        DigitsBefore(i) == Cardinality({j \in 1..(i - 1) : IsDigitChar(s[j])})
        PadRun(i) ==
            Cardinality({j \in 1..i :
                /\ s[j] = PadChar
                /\ \A x \in j..i : ~IsDigitChar(s[x])})
        Ends(i) ==
            /\ s[i] = PadChar
            /\ DigitsBefore(i) % 4 >= 2
            /\ (DigitsBefore(i) % 4) + PadRun(i) >= 4
        stops == {i \in 1..n : Ends(i)}
        stop == IF stops = {} THEN n + 1
                ELSE CHOOSE i \in stops : \A j \in stops : i <= j
        digits == SelectSeq(SubSeq(s, 1, stop - 1), IsDigitChar)
        nd == Len(digits)
        D(k) == B64Digit(digits[k])
        nbytes == 3 * (nd \div 4)
                  + (IF nd % 4 = 2 THEN 1 ELSE IF nd % 4 = 3 THEN 2 ELSE 0)
    IN  IF stops = {} /\ nd % 4 /= 0 THEN EncErr("binascii.Error")
        ELSE EncOk([t \in 1..nbytes |->
                LET g == 4 * ((t - 1) \div 3)
                    r == (t - 1) % 3
                IN  CASE r = 0 -> D(g + 1) * 4 + (D(g + 2) \div 16)
                      [] r = 1 -> (D(g + 2) % 16) * 16 + (D(g + 3) \div 4)
                      [] OTHER -> (D(g + 3) % 4) * 64 + D(g + 4)])

RECURSIVE RStripPad(_)
RStripPad(s) ==
    IF s /= <<>> /\ s[Len(s)] = PadChar
    THEN RStripPad(SubSeq(s, 1, Len(s) - 1))
    ELSE s

\* base64.urlsafe_b64decode(data).decode("utf-8"), lines 56 and 61.
DecodeText(data) ==
    LET b == urlsafe_b64decode(data) IN
    IF b.ok THEN Utf8Decode(b.val) ELSE b

(***************************************************************************)
(* get_email_body, lines 50-63.  A payload is a dictionary with optional   *)
(* keys; a call either returns a str or raises the decoder's exception.    *)
(***************************************************************************)
Return(text) == [kind |-> "return", text |-> text]
Raise(e) == [kind |-> "raise", exc |-> e]

NoBodyContent ==
    <<40, 78, 111, 32, 98, 111, 100, 121, 32, 99, 111, 110, 116, 101, 110,
      116, 41>>

EmptyPayload ==
    [mimeType |-> Absent, headers |-> Absent, body |-> Absent, parts |-> Absent]

\* "not payload": None, or a dictionary without any key.
PayloadFalsy(arg) == ~arg.has \/ arg.val = EmptyPayload

\* x.get("body") and x["body"].get("data")  /  x.get("body", {}).get("data")
BodyHasData(b) == b.has /\ Truthy(b.val.data)

Decoded(data) ==
    LET r == DecodeText(data) IN
    IF r.ok THEN Return(r.val) ELSE Raise(r.exc)

\* The loop of lines 59-61 from part i on: the data of the first part that
\* is text/plain and carries data, Absent when the loop falls through.
RECURSIVE FirstPlainData(_, _)
FirstPlainData(parts, i) ==
    IF i > Len(parts) THEN Absent
    ELSE IF parts[i].mimeType = Some("text/plain") /\ BodyHasData(parts[i].body)
    THEN Some(parts[i].body.val.data.val)
    ELSE FirstPlainData(parts, i + 1)

\* Variant: the parts are searched before the inline body.
get_email_body_parts_first(arg) ==
    IF PayloadFalsy(arg) THEN Return(<<>>)
    ELSE LET p == arg.val
             f == IF Truthy(p.parts) THEN FirstPlainData(p.parts.val, 1)
                  ELSE Absent
         IN  IF f.has THEN Decoded(f.val)
             ELSE IF BodyHasData(p.body) THEN Decoded(p.body.val.data.val)
             ELSE Return(NoBodyContent)

get_email_body(arg) ==
    IF PayloadFalsy(arg) THEN Return(<<>>)
    ELSE LET p == arg.val IN
         IF BodyHasData(p.body) THEN Decoded(p.body.val.data.val)
         ELSE LET f == IF Truthy(p.parts) THEN FirstPlainData(p.parts.val, 1)
                       ELSE Absent
              IN  IF f.has THEN Decoded(f.val) ELSE Return(NoBodyContent)

(***************************************************************************)
(* The payloads get_email_body is applied to.  Data strings:               *)
(*   "SGk=" (Hi), "Qnll" (Bye), "w6k=" (e-acute), "_w==" (the byte FF, not *)
(*   UTF-8), "SGk" (padding stripped), "" (empty).                         *)
(***************************************************************************)
D_Hi == <<83, 71, 107, 61>>
D_Bye == <<81, 110, 108, 108>>
D_Eacute == <<119, 54, 107, 61>>
D_NotUtf8 == <<95, 119, 61, 61>>
D_NoPad == <<83, 71, 107>>

BodyOpts(D) ==
    {Absent, Some([data |-> Absent])} \cup {Some([data |-> Some(d)]) : d \in D}

NestedPart ==
    [mimeType |-> Some("multipart/alternative"), body |-> Some([data |-> Absent]),
     parts |-> <<[mimeType |-> Some("text/plain"),
                  body |-> Some([data |-> Some(D_Hi)]), parts |-> <<>>]>>]

PartSet ==
    {[mimeType |-> m, body |-> b, parts |-> <<>>] :
        m \in {Absent, Some("text/plain"), Some("text/html")},
        b \in BodyOpts({<<>>, D_Eacute, D_NotUtf8})}
    \cup {NestedPart}

SeqsUpTo(S, n) == UNION {[1..k -> S] : k \in 0..n}

PartsOpts == {Absent} \cup {Some(ps) : ps \in SeqsUpTo(PartSet, MaxParts)}

ProbePayloads ==
    {Absent, Some(EmptyPayload)}
    \cup {Some([mimeType |-> Some("multipart/mixed"), headers |-> Absent,
                body |-> b, parts |-> ps]) :
            b \in BodyOpts({<<>>, D_Hi, D_Bye, D_NoPad}), ps \in PartsOpts}

(***************************************************************************)
(* Start-up, lines 20-48 and 316-317.  A setting is unset, empty, or set   *)
(* to a value the authorization server accepts ("good") or rejects         *)
(* ("bad"); os.getenv gives None or a str, and all([...]) tests truth.     *)
(***************************************************************************)
EnvValues == {"unset", "empty", "good", "bad"}

Environments ==
    [client_id : EnvValues, client_secret : EnvValues, refresh_token : EnvValues]

EnvTruthy(v) == v \notin {"unset", "empty"}

\* Variant of the test below: any([...]) in place of all([...]).
AnyCredential(e) ==
    EnvTruthy(e.client_id) \/ EnvTruthy(e.client_secret)
        \/ EnvTruthy(e.refresh_token)

\* all([CLIENT_ID, CLIENT_SECRET, REFRESH_TOKEN]), line 27.
AllCredentials(e) ==
    EnvTruthy(e.client_id) /\ EnvTruthy(e.client_secret)
        /\ EnvTruthy(e.refresh_token)

\* Whether the authorization server will grant a token for these settings.
ServerAccepts(e) ==
    e.client_id = "good" /\ e.client_secret = "good" /\ e.refresh_token = "good"

NoCredentials == [built |-> FALSE, token |-> "none"]

ToolNames ==
    {"list_emails", "search_emails", "send_email", "modify_email",
     "list_events", "create_event", "update_event", "delete_event"}

Idle == [tool |-> "none"]
NoProbe == [arg |-> Absent, done |-> FALSE, out |-> [kind |-> "none"]]

Init ==
    /\ phase = "boot"
    /\ env \in Environments
    /\ credentials = NoCredentials
    /\ services = {}
    /\ tools = {}
    /\ contacted = FALSE
    /\ last = Idle
    /\ probe = NoProbe

\* Importing the module and reaching mcp.run: the check of line 27 raises
\* ValueError, or the Credentials object (token=None), the two clients and
\* the eight tools are created and the server starts serving.
Startup ==
    /\ phase = "boot"
    /\ IF ~AllCredentials(env)
       THEN /\ phase' = "aborted"
            /\ UNCHANGED <<credentials, services, tools>>
       ELSE /\ phase' = "serving"
            /\ credentials' = [built |-> TRUE, token |-> "none"]
            /\ services' = {"gmail", "calendar"}
            /\ tools' = ToolNames
    /\ UNCHANGED <<env, contacted, last, probe>>

(***************************************************************************)
(* One request.execute() through the authorized transport.  The transport  *)
(* belongs to the client libraries; it is modelled from the specification  *)
(* (section 4.1): a token that is absent or expired is refreshed first,    *)
(* and a failed refresh raises before the request is sent.  fault is what  *)
(* goes wrong on this call: "none", "HttpError" (the API request fails)    *)
(* or "RefreshError" (the token endpoint fails).                           *)
(***************************************************************************)
Faults == {"none", "HttpError", "RefreshError"}

\* Variant: the request is sent with whatever token is held.
ExecuteWithoutRefresh(tok, accepted, fault) ==
    [token |-> tok, refreshed |-> FALSE, sent |-> TRUE,
     outcome |-> IF fault = "HttpError" THEN "HttpError" ELSE "ok"]

Execute(tok, accepted, fault) ==
    IF tok /= "valid" /\ (~accepted \/ fault = "RefreshError")
    THEN [token |-> tok, refreshed |-> FALSE, sent |-> FALSE,
          outcome |-> "RefreshError"]
    ELSE [token |-> "valid", refreshed |-> tok /= "valid", sent |-> TRUE,
          outcome |-> IF fault = "HttpError" THEN "HttpError" ELSE "ok"]

\* str(e) of the exception a failed call raises.
ErrMsg(outcome) ==
    IF outcome = "RefreshError" THEN "invalid_grant" ELSE "<HttpError 500>"

CallRec(api, params, tok, x) ==
    [api |-> api, params |-> params, tokenBefore |-> tok,
     refreshed |-> x.refreshed, sent |-> x.sent, tokenAtSend |-> x.token,
     outcome |-> x.outcome]

\* The fault of the k-th call of an invocation.
FaultAt(fault, k) == IF fault.at = k THEN fault.kind ELSE "none"

FaultPlans(n) ==
    {[at |-> 0, kind |-> "none"]}
    \cup [at : 1..n, kind : {"HttpError", "RefreshError"}]

(***************************************************************************)
(* What a handler hands back: the text it returns, whether an exception    *)
(* left it, the calls it made, and the token the credentials hold after.   *)
(* A returned text is a fixed prefix followed by an interpolated rest;     *)
(* json.dumps of a list of records is kept as that list.                   *)
(***************************************************************************)
Text(prefix, rest) == [kind |-> "text", prefix |-> prefix, rest |-> rest]
Json(value) == [kind |-> "json", value |-> value]

Handled(ret, calls, tok) ==
    [ret |-> ret, raised |-> FALSE, calls |-> calls, token |-> tok]

Escaped(exc, calls, tok) ==
    [ret |-> [kind |-> "none"], raised |-> TRUE, exc |-> exc, calls |-> calls,
     token |-> tok]

(***************************************************************************)
(* The remote mailbox: what users().messages().get returns for each id.    *)
(*   m1  Subject/From/Date, inline body "Hi", two labels                   *)
(*   m2  only a From header, html part then text/plain part, no labelIds   *)
(*   m3  no headers key, only a nested multipart part, empty label list    *)
(*   m4  two Subject headers, a lower-case "from", inline body that is     *)
(*       not UTF-8 (a message in a legacy character set)                   *)
(*   m5  Subject/From/Date, inline body "Bye"                              *)
(***************************************************************************)
Hdr(n, v) == [name |-> n, value |-> v]

LeafPart(mime, data) ==
    [mimeType |-> Some(mime), body |-> Some([data |-> Some(data)]),
     parts |-> <<>>]

MessageIds == {"m1", "m2", "m3", "m4", "m5"}

Mailbox ==
    [id \in MessageIds |->
        CASE id = "m1" ->
               [id |-> id, labelIds |-> Some(<<"INBOX", "UNREAD">>),
                payload |->
                  [mimeType |-> Some("text/plain"),
                   headers |-> Some(<<Hdr("From", "a@x"), Hdr("Subject", "Hello"),
                                      Hdr("Date", "Mon")>>),
                   body |-> Some([data |-> Some(D_Hi)]), parts |-> Absent]]
          [] id = "m2" ->
               [id |-> id, labelIds |-> Absent,
                payload |->
                  [mimeType |-> Some("multipart/alternative"),
                   headers |-> Some(<<Hdr("From", "b@x")>>),
                   body |-> Some([data |-> Absent]),
                   parts |-> Some(<<LeafPart("text/html", D_Bye),
                                    LeafPart("text/plain", D_Eacute)>>)]]
          [] id = "m3" ->
               [id |-> id, labelIds |-> Some(<<>>),
                payload |->
                  [mimeType |-> Some("multipart/mixed"), headers |-> Absent,
                   body |-> Absent, parts |-> Some(<<NestedPart>>)]]
          [] id = "m4" ->
               [id |-> id, labelIds |-> Some(<<"INBOX">>),
                payload |->
                  [mimeType |-> Some("text/plain"),
                   headers |-> Some(<<Hdr("Subject", "S1"), Hdr("Subject", "S2"),
                                      Hdr("from", "c@x"), Hdr("Date", "Tue")>>),
                   body |-> Some([data |-> Some(D_NotUtf8)]), parts |-> Absent]]
          [] OTHER ->
               [id |-> id, labelIds |-> Some(<<"SENT">>),
                payload |->
                  [mimeType |-> Some("text/plain"),
                   headers |-> Some(<<Hdr("Subject", "Bye"), Hdr("From", "d@x"),
                                      Hdr("Date", "Wed")>>),
                   body |-> Some([data |-> Some(D_Bye)]), parts |-> Absent]]]

\* Sequences of distinct elements of S, of length at most n.
DistinctSeqs(S, n) ==
    {q \in SeqsUpTo(S, n) : \A i, j \in 1..Len(q) : i /= j => q[i] /= q[j]}

\* The answers users().messages().list can give: no "messages" key, or
\* references to distinct messages.
ListResponses(maxResults) ==
    {Absent} \cup {Some(q) : q \in DistinctSeqs(MessageIds, maxResults)}

\* str(e) of a decoding exception.
ExcMsg(exc) ==
    IF exc = "binascii.Error" THEN "Incorrect padding"
    ELSE "'utf-8' codec can't decode byte"

\* Variant: a placeholder instead of "" for a header that is missing.
RECURSIVE HeaderFromPlaceholder(_, _, _)
HeaderFromPlaceholder(headers, i, name) ==
    IF i > Len(headers) THEN "(none)"
    ELSE IF headers[i].name = name THEN headers[i].value
    ELSE HeaderFromPlaceholder(headers, i + 1, name)

\* next((h["value"] for h in headers if h["name"] == name), ""), from i on.
RECURSIVE HeaderFrom(_, _, _)
HeaderFrom(headers, i, name) ==
    IF i > Len(headers) THEN ""
    ELSE IF headers[i].name = name THEN headers[i].value
    ELSE HeaderFrom(headers, i + 1, name)

HeaderValue(payload, name) ==
    HeaderFrom(IF payload.headers.has THEN payload.headers.val ELSE <<>>, 1, name)

\* The record the loop body appends, lines 90-96 and 128-135.
EmailRecord(id, detail, body, withLabels) ==
    IF withLabels
    THEN [id |-> id, subject |-> HeaderValue(detail.payload, "Subject"),
          from |-> HeaderValue(detail.payload, "From"),
          date |-> HeaderValue(detail.payload, "Date"), body |-> body,
          labels |-> IF detail.labelIds.has THEN detail.labelIds.val ELSE <<>>]
    ELSE [id |-> id, subject |-> HeaderValue(detail.payload, "Subject"),
          from |-> HeaderValue(detail.payload, "From"),
          date |-> HeaderValue(detail.payload, "Date"), body |-> body]

FetchError == "Error fetching emails: "

\* The for loop of lines 78-96 (116-135 in search_emails) from message i
\* on, inside the handler's try: a failed get or a body that does not
\* decode ends the invocation with the error text.
RECURSIVE EmailLoop(_, _, _, _, _, _, _, _)
EmailLoop(msgs, i, tok, accepted, fault, calls, recs, withLabels) ==
    IF i > Len(msgs) THEN Handled(Json(recs), calls, tok)
    ELSE
      LET x == Execute(tok, accepted, FaultAt(fault, i + 1))
          c == CallRec("gmail.users.messages.get",
                       [userId |-> "me", id |-> msgs[i]], tok, x)
          detail == Mailbox[msgs[i]]
          b == get_email_body(Some(detail.payload))
      IN  IF x.outcome /= "ok"
          THEN Handled(Text(FetchError, ErrMsg(x.outcome)), Append(calls, c),
                       x.token)
          ELSE IF b.kind = "raise"
          THEN Handled(Text(FetchError, ExcMsg(b.exc)), Append(calls, c),
                       x.token)
          ELSE EmailLoop(msgs, i + 1, x.token, accepted, fault,
                         Append(calls, c),
                         Append(recs, EmailRecord(msgs[i], detail, b.text,
                                                  withLabels)),
                         withLabels)

\* Variant: the loop stops one message short.
FetchEmailsSkipLast(maxResults, query, tok, accepted, remote, fault, withLabels) ==
    LET x == Execute(tok, accepted, FaultAt(fault, 1))
        c == CallRec("gmail.users.messages.list",
                     [userId |-> "me", maxResults |-> maxResults, q |-> query],
                     tok, x)
        messages == IF remote.has THEN remote.val ELSE <<>>
    IN  IF x.outcome /= "ok"
        THEN Handled(Text(FetchError, ErrMsg(x.outcome)), <<c>>, x.token)
        ELSE EmailLoop(SubSeq(messages, 1, Len(messages) - 1), 1, x.token,
                       accepted, fault, <<c>>, <<>>, withLabels)

\* The list call and the loop shared by list_emails and search_emails.
FetchEmails(maxResults, query, tok, accepted, remote, fault, withLabels) ==
    LET x == Execute(tok, accepted, FaultAt(fault, 1))
        c == CallRec("gmail.users.messages.list",
                     [userId |-> "me", maxResults |-> maxResults, q |-> query],
                     tok, x)
        messages == IF remote.has THEN remote.val ELSE <<>>
    IN  IF x.outcome /= "ok"
        THEN Handled(Text(FetchError, ErrMsg(x.outcome)), <<c>>, x.token)
        ELSE EmailLoop(messages, 1, x.token, accepted, fault, <<c>>, <<>>,
                       withLabels)

\* list_emails, lines 65-101.
list_emails(args, tok, accepted, remote, fault) ==
    FetchEmails(args.maxResults, args.query, tok, accepted, remote, fault,
                FALSE)

\* search_emails, lines 103-140.
search_emails(args, tok, accepted, remote, fault) ==
    FetchEmails(args.maxResults, args.query, tok, accepted, remote, fault,
                TRUE)

(***************************************************************************)
(* send_email, lines 142-172.                                              *)
(***************************************************************************)
ContentTypeHeader ==
    <<67, 111, 110, 116, 101, 110, 116, 45, 84, 121, 112, 101, 58, 32, 116,
      101, 120, 116, 47, 112, 108, 97, 105, 110, 59, 32, 99, 104, 97, 114,
      115, 101, 116, 61, 34, 85, 84, 70, 45, 56, 34>>
MimeVersionHeader ==
    <<77, 73, 77, 69, 45, 86, 101, 114, 115, 105, 111, 110, 58, 32, 49, 46, 48>>
ToPrefix == <<84, 111, 58, 32>>
CcPrefix == <<67, 99, 58, 32>>
BccPrefix == <<66, 99, 99, 58, 32>>
SubjectPrefix == <<83, 117, 98, 106, 101, 99, 116, 58, 32>>
CRLF == <<13, 10>>

\* sep.join(items)
RECURSIVE Join(_, _)
Join(items, sep) ==
    IF items = <<>> THEN <<>>
    ELSE IF Len(items) = 1 THEN items[1]
    ELSE items[1] \o sep \o Join(Tail(items), sep)

\* Variant: the Bcc line is written before the Cc line.
ComposeEmailBccFirst(args) ==
    LET headers ==
          <<ContentTypeHeader, MimeVersionHeader, ToPrefix \o args.to>>
          \o (IF Truthy(args.bcc) THEN <<BccPrefix \o args.bcc.val>> ELSE <<>>)
          \o (IF Truthy(args.cc) THEN <<CcPrefix \o args.cc.val>> ELSE <<>>)
          \o <<SubjectPrefix \o args.subject>>
    IN  Join(headers, CRLF) \o CRLF \o CRLF \o args.body

\* Lines 146-159: the header list and the composed message.
ComposeEmail(args) ==
    LET headers ==
          <<ContentTypeHeader, MimeVersionHeader, ToPrefix \o args.to>>
          \o (IF Truthy(args.cc) THEN <<CcPrefix \o args.cc.val>> ELSE <<>>)
          \o (IF Truthy(args.bcc) THEN <<BccPrefix \o args.bcc.val>> ELSE <<>>)
          \o <<SubjectPrefix \o args.subject>>
    IN  Join(headers, CRLF) \o CRLF \o CRLF \o args.body

\* Line 162: base64.urlsafe_b64encode(...).decode().rstrip("=")
EncodeRaw(bytes) == RStripPad(urlsafe_b64encode(bytes))

send_email(args, tok, accepted, remote, fault) ==
    LET enc == Utf8Encode(ComposeEmail(args)) IN
    IF ~enc.ok
    THEN Handled(Text("Error sending email: ",
                      "'utf-8' codec can't encode character"), <<>>, tok)
    ELSE
      LET x == Execute(tok, accepted, FaultAt(fault, 1))
          c == CallRec("gmail.users.messages.send",
                       [userId |-> "me", body |-> [raw |-> EncodeRaw(enc.val)]],
                       tok, x)
      IN  IF x.outcome /= "ok"
          THEN Handled(Text("Error sending email: ", ErrMsg(x.outcome)), <<c>>,
                       x.token)
          ELSE Handled(Text("Email sent successfully. Message ID: ", remote.id),
                       <<c>>, x.token)

(***************************************************************************)
(* modify_email, lines 174-193.                                            *)
(***************************************************************************)
OrEmpty(o) == IF Truthy(o) THEN o.val ELSE <<>>

modify_email(args, tok, accepted, remote, fault) ==
    LET x == Execute(tok, accepted, FaultAt(fault, 1))
        c == CallRec("gmail.users.messages.modify",
                     [userId |-> "me", id |-> args.id,
                      body |-> [addLabelIds |-> OrEmpty(args.addLabels),
                                removeLabelIds |-> OrEmpty(args.removeLabels)]],
                     tok, x)
    IN  IF x.outcome /= "ok"
        THEN Handled(Text("Error modifying email: ", ErrMsg(x.outcome)), <<c>>,
                     x.token)
        ELSE Handled(Text("Email modified successfully. Updated labels for message ID: ",
                          remote.id), <<c>>, x.token)

(***************************************************************************)
(* list_events, lines 195-228.  The remote calendar holds three events:    *)
(*   e1 with every field, e2 with only its id, e3 with summary and start.  *)
(***************************************************************************)
When(t) == [dateTime |-> t, timeZone |-> "Asia/Seoul"]

EventIds == {"e1", "e2", "e3"}

Calendar ==
    [id \in EventIds |->
        CASE id = "e1" ->
               [id |-> id, summary |-> Some("Standup"), start |-> Some(When("t1")),
                end |-> Some(When("t2")), location |-> Some("Room 1")]
          [] id = "e2" ->
               [id |-> id, summary |-> Absent, start |-> Absent, end |-> Absent,
                location |-> Absent]
          [] OTHER ->
               [id |-> id, summary |-> Some("Lunch"), start |-> Some(When("t3")),
                end |-> Absent, location |-> Absent]]

\* The answers events().list can give: no "items" key, or distinct events.
EventResponses ==
    {Absent} \cup {Some(q) : q \in DistinctSeqs(EventIds, MaxEvents)}

\* datetime.now().isoformat() + "Z", line 200.
NowZ == "now.isoformat()Z"

\* Lines 217-223: dict.get gives None (Absent here, null in the JSON text)
\* for a key the event lacks; the key itself is always written.
EventRecord(event) ==
    [id |-> event.id, summary |-> event.summary, start |-> event.start,
     end |-> event.end, location |-> event.location]

list_events(args, tok, accepted, remote, fault) ==
    LET timeMin == IF TruthyStr(args.timeMin) THEN args.timeMin.val ELSE NowZ
        params == [calendarId |-> "primary", timeMin |-> timeMin,
                   maxResults |-> args.maxResults, singleEvents |-> TRUE,
                   orderBy |-> "startTime",
                   timeMax |-> IF TruthyStr(args.timeMax) THEN args.timeMax
                               ELSE Absent]
        x == Execute(tok, accepted, FaultAt(fault, 1))
        c == CallRec("calendar.events.list", params, tok, x)
        items == IF remote.has THEN remote.val ELSE <<>>
    IN  IF x.outcome /= "ok"
        THEN Handled(Text("Error fetching calendar events: ", ErrMsg(x.outcome)),
                     <<c>>, x.token)
        ELSE Handled(Json([i \in 1..Len(items) |-> EventRecord(Calendar[items[i]])]),
                     <<c>>, x.token)

(***************************************************************************)
(* create_event, update_event, delete_event, lines 230-314.  A request     *)
(* body is a record of Opt fields: Absent is a key the body lacks.         *)
(***************************************************************************)
Attendees(emails) == [i \in 1..Len(emails) |-> [email |-> emails[i]]]

\* Lines 235-252.
CreateBody(args) ==
    [summary |-> Some(args.summary), start |-> Some(When(args.start)),
     end |-> Some(When(args.end)),
     location |-> IF TruthyStr(args.location) THEN args.location ELSE Absent,
     description |-> IF TruthyStr(args.description) THEN args.description
                     ELSE Absent,
     attendees |-> IF Truthy(args.attendees)
                   THEN Some(Attendees(args.attendees.val)) ELSE Absent]

create_event(args, tok, accepted, remote, fault) ==
    LET x == Execute(tok, accepted, FaultAt(fault, 1))
        c == CallRec("calendar.events.insert",
                     [calendarId |-> "primary", body |-> CreateBody(args)], tok, x)
    IN  IF x.outcome /= "ok"
        THEN Handled(Text("Error creating event: ", ErrMsg(x.outcome)), <<c>>,
                     x.token)
        ELSE Handled(Text("Event created successfully. Event ID: ", remote.id),
                     <<c>>, x.token)

\* Lines 270-289.
PatchBody(args) ==
    [summary |-> IF TruthyStr(args.summary) THEN args.summary ELSE Absent,
     location |-> IF TruthyStr(args.location) THEN args.location ELSE Absent,
     description |-> IF TruthyStr(args.description) THEN args.description
                     ELSE Absent,
     start |-> IF TruthyStr(args.start) THEN Some(When(args.start.val))
               ELSE Absent,
     end |-> IF TruthyStr(args.end) THEN Some(When(args.end.val)) ELSE Absent,
     attendees |-> IF Truthy(args.attendees)
                   THEN Some(Attendees(args.attendees.val)) ELSE Absent]

update_event(args, tok, accepted, remote, fault) ==
    LET x == Execute(tok, accepted, FaultAt(fault, 1))
        c == CallRec("calendar.events.patch",
                     [calendarId |-> "primary", eventId |-> args.eventId,
                      body |-> PatchBody(args)], tok, x)
    IN  IF x.outcome /= "ok"
        THEN Handled(Text("Error updating event: ", ErrMsg(x.outcome)), <<c>>,
                     x.token)
        ELSE Handled(Text("Event updated successfully. Event ID: ", remote.id),
                     <<c>>, x.token)

\* Variant: the failure of the delete call is not caught.
delete_event_unguarded(args, tok, accepted, remote, fault) ==
    LET x == Execute(tok, accepted, FaultAt(fault, 1))
        c == CallRec("calendar.events.delete",
                     [calendarId |-> "primary", eventId |-> args.eventId], tok, x)
    IN  IF x.outcome /= "ok"
        THEN Escaped(x.outcome, <<c>>, x.token)
        ELSE Handled(Text("Event deleted successfully. Event ID: ", args.eventId),
                     <<c>>, x.token)

\* Lines 302-314.
delete_event(args, tok, accepted, remote, fault) ==
    LET x == Execute(tok, accepted, FaultAt(fault, 1))
        c == CallRec("calendar.events.delete",
                     [calendarId |-> "primary", eventId |-> args.eventId], tok, x)
    IN  IF x.outcome /= "ok"
        THEN Handled(Text("Error deleting event: ", ErrMsg(x.outcome)), <<c>>,
                     x.token)
        ELSE Handled(Text("Event deleted successfully. Event ID: ", args.eventId),
                     <<c>>, x.token)

(***************************************************************************)
(* Tool invocations.  The server handles one call at a time: a handler     *)
(* runs to its return, the text goes back to the client (Respond), and     *)
(* the next call may come.  Arguments and remote answers are drawn from    *)
(* small sets.                                                             *)
(***************************************************************************)
Ready(tool) == phase = "serving" /\ last = Idle /\ tool \in tools

Finish(tool, args, remote, h) ==
    /\ last' = [tool |-> tool, args |-> args, remote |-> remote,
                calls |-> h.calls, ret |-> h.ret, raised |-> h.raised,
                tokenBefore |-> credentials.token]
    /\ credentials' = [credentials EXCEPT !.token = h.token]
    /\ contacted' = (contacted \/ \E i \in 1..Len(h.calls) :
                        h.calls[i].sent \/ h.calls[i].tokenBefore /= "valid")
    /\ UNCHANGED <<phase, env, services, tools, probe>>

Queries == {"", "is:unread"}
NumMessages(remote) == IF remote.has THEN Len(remote.val) ELSE 0

ListEmails ==
    /\ Ready("list_emails")
    /\ \E maxResults \in 1..MaxMessages, query \in Queries :
       \E remote \in ListResponses(maxResults) :
       \E fault \in FaultPlans(1 + NumMessages(remote)) :
         LET args == [maxResults |-> maxResults, query |-> query] IN
         Finish("list_emails", args, remote,
                list_emails(args, credentials.token, ServerAccepts(env),
                            remote, fault))

SearchEmails ==
    /\ Ready("search_emails")
    /\ \E maxResults \in 1..MaxMessages, query \in Queries :
       \E remote \in ListResponses(maxResults) :
       \E fault \in FaultPlans(1 + NumMessages(remote)) :
         LET args == [query |-> query, maxResults |-> maxResults] IN
         Finish("search_emails", args, remote,
                search_emails(args, credentials.token, ServerAccepts(env),
                              remote, fault))

\* Characters of a message body: A, e-acute, and a lone surrogate (which
\* str.encode refuses).
BodyChars == {65, 233, 55296}
T_To == <<97, 64, 98>>
T_Cc == <<99, 64, 100>>
T_Hi == <<72, 105>>
OptTexts == {Absent, Some(<<>>), Some(T_Cc)}

SendArgs ==
    [to : {T_To}, subject : {<<>>, T_Hi}, body : SeqsUpTo(BodyChars, MaxBodyLen),
     cc : OptTexts, bcc : OptTexts]

SendEmail ==
    /\ Ready("send_email")
    /\ \E args \in SendArgs, fault \in FaultPlans(1) :
         LET remote == [id |-> "sent1"] IN
         Finish("send_email", args, remote,
                send_email(args, credentials.token, ServerAccepts(env),
                           remote, fault))

OptLabels == {Absent, Some(<<>>), Some(<<"UNREAD">>)}

ModifyEmail ==
    /\ Ready("modify_email")
    /\ \E id \in {"m1"}, add \in OptLabels, remove \in OptLabels,
          fault \in FaultPlans(1) :
         LET args == [id |-> id, addLabels |-> add, removeLabels |-> remove]
             remote == [id |-> id]
         IN  Finish("modify_email", args, remote,
                    modify_email(args, credentials.token, ServerAccepts(env),
                                 remote, fault))

OptTimes == {Absent, Some(""), Some("t0")}

ListEvents ==
    /\ Ready("list_events")
    /\ \E timeMin \in OptTimes, timeMax \in OptTimes, remote \in EventResponses,
          fault \in FaultPlans(1) :
         LET args == [maxResults |-> 10, timeMin |-> timeMin,
                      timeMax |-> timeMax]
         IN  Finish("list_events", args, remote,
                    list_events(args, credentials.token, ServerAccepts(env),
                                remote, fault))

OptStrs == {Absent, Some(""), Some("v")}
OptAttendees == {Absent, Some(<<>>), Some(<<"x@y">>)}

CreateEvent ==
    /\ Ready("create_event")
    /\ \E location \in OptStrs, description \in OptStrs,
          attendees \in OptAttendees, fault \in FaultPlans(1) :
         LET args == [summary |-> "s", start |-> "t1", end |-> "t2",
                      location |-> location, description |-> description,
                      attendees |-> attendees]
             remote == [id |-> "e9"]
         IN  Finish("create_event", args, remote,
                    create_event(args, credentials.token, ServerAccepts(env),
                                 remote, fault))

UpdateArgs ==
    [eventId : {"e1"}, summary : OptStrs, location : OptStrs,
     description : OptStrs, start : OptStrs, end : OptStrs,
     attendees : OptAttendees]

UpdateEvent ==
    /\ Ready("update_event")
    /\ \E args \in UpdateArgs, fault \in FaultPlans(1) :
         LET remote == [id |-> args.eventId] IN
         Finish("update_event", args, remote,
                update_event(args, credentials.token, ServerAccepts(env),
                             remote, fault))

DeleteEvent ==
    /\ Ready("delete_event")
    /\ \E eventId \in EventIds, fault \in FaultPlans(1) :
         LET args == [eventId |-> eventId]
             remote == [id |-> eventId]
         IN  Finish("delete_event", args, remote,
                    delete_event(args, credentials.token, ServerAccepts(env),
                                 remote, fault))

\* The returned text has gone back to the client.
Respond ==
    /\ phase = "serving"
    /\ last /= Idle
    /\ last' = Idle
    /\ UNCHANGED <<phase, env, credentials, services, tools, contacted, probe>>

\* Time passes between two calls and the access token runs out.
Expire ==
    /\ phase = "serving"
    /\ last = Idle
    /\ credentials.token = "valid"
    /\ credentials' = [credentials EXCEPT !.token = "expired"]
    /\ UNCHANGED <<phase, env, services, tools, contacted, last, probe>>

Next ==
    \/ Startup
    \/ ListEmails
    \/ SearchEmails
    \/ SendEmail
    \/ ModifyEmail
    \/ ListEvents
    \/ CreateEvent
    \/ UpdateEvent
    \/ DeleteEvent
    \/ Respond
    \/ Expire

Spec == Init /\ [][Next]_vars

(***************************************************************************)
(* get_email_body on its own: the argument is drawn from ProbePayloads     *)
(* and the function is applied to it once.                                 *)
(***************************************************************************)
InitBody ==
    /\ phase = "unit"
    /\ env = [client_id |-> "unset", client_secret |-> "unset",
              refresh_token |-> "unset"]
    /\ credentials = NoCredentials
    /\ services = {}
    /\ tools = {}
    /\ contacted = FALSE
    /\ last = Idle
    /\ probe \in {[arg |-> a, done |-> FALSE, out |-> [kind |-> "none"]] :
                    a \in ProbePayloads}

ApplyGetEmailBody ==
    /\ phase = "unit"
    /\ ~probe.done
    /\ probe' = [probe EXCEPT !.done = TRUE, !.out = get_email_body(probe.arg)]
    /\ UNCHANGED <<phase, env, credentials, services, tools, contacted, last>>

NextBody == ApplyGetEmailBody

SpecBody == InitBody /\ [][NextBody]_vars

(***************************************************************************)
(*                              PROPERTIES                                 *)
(***************************************************************************)

\* The index of the first part satisfying P, 0 when there is none.
FirstIndex(parts, P(_)) ==
    IF \E i \in 1..Len(parts) : P(parts[i])
    THEN CHOOSE i \in 1..Len(parts) :
            P(parts[i]) /\ \A j \in 1..(i - 1) : ~P(parts[j])
    ELSE 0

TopParts(p) == IF p.parts.has THEN p.parts.val ELSE <<>>

IsPlain(part) == part.mimeType = Some("text/plain")
IsPlainWithData(part) ==
    /\ part.mimeType = Some("text/plain")
    /\ part.body.has /\ part.body.val.data.has /\ part.body.val.data.val /= <<>>

C1_ClaimedBody(arg) ==
    LET p == IF arg.has THEN arg.val ELSE EmptyPayload
        i == FirstIndex(TopParts(p), IsPlain)
        d == TopParts(p)[i].body
    IN  IF p.body.has /\ p.body.val.data.has
        THEN Decoded(p.body.val.data.val)
        ELSE IF i /= 0
        THEN Decoded(IF d.has /\ d.val.data.has THEN d.val.data.val ELSE <<>>)
        ELSE Return(NoBodyContent)

\* C1, as stated: for every payload the result is the decoded inline body
\* when payload.body.data is present, otherwise the decoded body of the
\* first top-level text/plain part, otherwise the sentinel.
C1_Original == probe.done => probe.out = C1_ClaimedBody(probe.arg)

C1_AmendedBody(arg) ==
    LET p == arg.val
        i == FirstIndex(TopParts(p), IsPlainWithData)
    IN  IF ~arg.has \/ arg.val = EmptyPayload THEN Return(<<>>)
        ELSE IF p.body.has /\ p.body.val.data.has /\ p.body.val.data.val /= <<>>
        THEN Decoded(p.body.val.data.val)
        ELSE IF i /= 0 THEN Decoded(TopParts(p)[i].body.val.data.val)
        ELSE Return(NoBodyContent)

\* C1, amended: a missing or empty payload gives the empty string; otherwise
\* the result is the decoding of the inline body data when that data is
\* non-empty, else the decoding of the first top-level part that is
\* text/plain and carries non-empty data (nested parts are not searched),
\* else the sentinel; the decoding is the text when the data is padded
\* base64url of UTF-8 bytes, and the decoder's exception otherwise.
C1_BodyPrecedence == probe.done => probe.out = C1_AmendedBody(probe.arg)

\* C1's case: no inline data, a text/plain part without data before a
\* text/plain part with data, and the second one's text returned.
C1_Witness ==
    /\ probe.done /\ probe.arg.has
    /\ ~BodyHasData(probe.arg.val.body)
    /\ Len(TopParts(probe.arg.val)) = 2
    /\ IsPlain(TopParts(probe.arg.val)[1])
    /\ ~IsPlainWithData(TopParts(probe.arg.val)[1])
    /\ IsPlainWithData(TopParts(probe.arg.val)[2])
    /\ probe.out = Return(<<233>>)

Repad(raw) == raw \o [i \in 1..((4 - (Len(raw) % 4)) % 4) |-> PadChar]

C2_Message(args, withCc, withBcc) ==
    ContentTypeHeader \o CRLF \o MimeVersionHeader \o CRLF
    \o ToPrefix \o args.to \o CRLF
    \o (IF withCc THEN CcPrefix \o args.cc.val \o CRLF ELSE <<>>)
    \o (IF withBcc THEN BccPrefix \o args.bcc.val \o CRLF ELSE <<>>)
    \o SubjectPrefix \o args.subject \o CRLF \o CRLF \o args.body

C2_RoundTrips(withCc(_), withBcc(_)) ==
    (last.tool = "send_email" /\ last.calls /= <<>>) =>
        LET raw == last.calls[1].params.body.raw IN
        /\ \A i \in 1..Len(raw) : raw[i] /= PadChar
        /\ DecodeText(Repad(raw))
             = EncOk(C2_Message(last.args, withCc(last.args), withBcc(last.args)))

C2_CcSupplied(args) == args.cc.has
C2_BccSupplied(args) == args.bcc.has
C2_CcNonEmpty(args) == args.cc.has /\ args.cc.val /= <<>>
C2_BccNonEmpty(args) == args.bcc.has /\ args.bcc.val /= <<>>

\* C2, as stated: the raw payload of every send has no pad character and,
\* padded again and decoded, is the header lines Content-Type, MIME-Version,
\* To, Cc if cc was supplied, Bcc if bcc was supplied, Subject, joined by
\* CRLF, a blank line and the body.
C2_Original == C2_RoundTrips(C2_CcSupplied, C2_BccSupplied)

\* C2, amended: the same, with the Cc (Bcc) line present exactly when cc
\* (bcc) was supplied and is not the empty string.
C2_SendRoundTrips == C2_RoundTrips(C2_CcNonEmpty, C2_BccNonEmpty)

\* C2's case: a message with Cc, Bcc and a non-ASCII body whose encoding
\* needed padding has been sent.
C2_Witness ==
    /\ last.tool = "send_email" /\ last.calls /= <<>>
    /\ last.calls[1].sent /\ last.calls[1].outcome = "ok"
    /\ Truthy(last.args.cc) /\ Truthy(last.args.bcc)
    /\ \E i \in 1..Len(last.args.body) : last.args.body[i] > 127
    /\ Len(last.calls[1].params.body.raw) % 4 /= 0

C3_Label(tool) ==
    CASE tool \in {"list_emails", "search_emails"} -> "Error fetching emails: "
      [] tool = "send_email" -> "Error sending email: "
      [] tool = "modify_email" -> "Error modifying email: "
      [] tool = "list_events" -> "Error fetching calendar events: "
      [] tool = "create_event" -> "Error creating event: "
      [] tool = "update_event" -> "Error updating event: "
      [] tool = "delete_event" -> "Error deleting event: "

C3_Failed(call) == call.outcome /= "ok"

\* C3: in each of the eight handlers, when a remote call of the invocation
\* fails, no exception leaves the handler and the text returned is the
\* handler's error label followed by the message of the failure; it is
\* neither a success message nor a list of records.
C3_ErrorsReturned ==
    (last.tool /= "none" /\ \E i \in 1..Len(last.calls) : C3_Failed(last.calls[i]))
    => /\ ~last.raised
       /\ last.ret.kind = "text"
       /\ last.ret.prefix = C3_Label(last.tool)
       /\ \E i \in 1..Len(last.calls) :
            /\ C3_Failed(last.calls[i])
            /\ last.ret.rest = ErrMsg(last.calls[i].outcome)

\* C3's case: list_emails whose second message fetch failed after the list
\* call and the first fetch had succeeded.
C3_Witness ==
    /\ last.tool = "list_emails" /\ Len(last.calls) = 3
    /\ last.calls[1].outcome = "ok" /\ last.calls[2].outcome = "ok"
    /\ last.calls[3].outcome = "HttpError"
    /\ last.ret = Text("Error fetching emails: ", "<HttpError 500>")

C4_Record(id) ==
    [id |-> id,
     subject |-> HeaderValue(Mailbox[id].payload, "Subject"),
     from |-> HeaderValue(Mailbox[id].payload, "From"),
     date |-> HeaderValue(Mailbox[id].payload, "Date")]

\* C4, as stated: when the list call returns N references and the list call
\* and all N fetches succeed, list_emails returns N records in the order of
\* the list, record i with the id of reference i and the subject, from,
\* date and body of that message.
C4_RecordsPreserved ==
    (/\ last.tool = "list_emails"
     /\ Len(last.calls) = 1 + NumMessages(last.remote)
     /\ \A i \in 1..Len(last.calls) : last.calls[i].outcome = "ok")
    => /\ last.ret.kind = "json"
       /\ Len(last.ret.value) = NumMessages(last.remote)
       /\ \A i \in 1..NumMessages(last.remote) :
            LET r == last.ret.value[i]
                id == last.remote.val[i]
            IN  /\ [id |-> r.id, subject |-> r.subject, from |-> r.from,
                    date |-> r.date] = C4_Record(id)
                /\ Return(r.body) = get_email_body(Some(Mailbox[id].payload))

C5_Missing(e) ==
    \E k \in {"client_id", "client_secret", "refresh_token"} :
        e[k] \in {"unset", "empty"}

\* C5: when one of the three OAuth settings is unset or empty, start-up
\* aborts: no credential object and no service client is built, no tool is
\* registered or served, and no request ever leaves the process.
C5_MissingCredentialsAbort ==
    (C5_Missing(env) /\ phase /= "boot")
    => /\ phase = "aborted"
       /\ ~credentials.built /\ services = {} /\ tools = {}
       /\ last = Idle /\ ~contacted

\* C5's case: start-up has run with an empty refresh token beside a good
\* client id and secret.
C5_Witness ==
    /\ phase = "aborted"
    /\ env = [client_id |-> "good", client_secret |-> "good",
              refresh_token |-> "empty"]

\* C6, as stated: with all three settings present but not accepted by the
\* authorization server, start-up fails and the server never serves tools.
C6_InvalidCredentialsFailFast ==
    (~C5_Missing(env) /\ ~ServerAccepts(env) /\ phase /= "boot")
    => phase /= "serving"

\* C7: the credentials start without an access token, and every API
\* request that is sent is sent with a valid token: a token that was
\* absent or expired before the call has been refreshed first, and when
\* the refresh fails the request is not sent.
C7_TokenBeforeRequest ==
    /\ (credentials.built /\ ~contacted) => credentials.token = "none"
    /\ last.tool /= "none" =>
         \A i \in 1..Len(last.calls) :
            LET c == last.calls[i] IN
            /\ c.sent => c.tokenAtSend = "valid"
            /\ (c.sent /\ c.tokenBefore /= "valid") => c.refreshed
            /\ c.outcome = "RefreshError" => ~c.sent

\* C7's case: a call that found the token expired, refreshed it and sent
\* its request.
C7_Witness ==
    /\ last.tool /= "none" /\ last.calls /= <<>>
    /\ last.calls[1].tokenBefore = "expired"
    /\ last.calls[1].refreshed /\ last.calls[1].sent

C8_Succeeded ==
    last.ret.kind = "json"
    \/ (last.ret.kind = "text" /\ last.ret.prefix /= C3_Label(last.tool))

C8_Listed ==
    IF last.tool \in {"list_emails", "search_emails"}
    THEN NumMessages(last.remote) ELSE 0

\* C8, as stated: every tool invocation makes at most two remote calls,
\* and at least one when it does not end in an error.
C8_Original ==
    last.tool /= "none" =>
        /\ Len(last.calls) <= 2
        /\ C8_Succeeded => Len(last.calls) >= 1

\* C8, amended: an invocation of list_emails or search_emails makes at most
\* 1 + N remote calls, N the number of message references the list call
\* returned, and exactly 1 + N when it does not end in an error; an
\* invocation of any other tool makes at most one, and exactly one when it
\* does not end in an error.
C8_CallCount ==
    last.tool /= "none" =>
        /\ Len(last.calls) <= 1 + C8_Listed
        /\ C8_Succeeded => Len(last.calls) = 1 + C8_Listed

\* C8's case: list_emails returned the records of two messages after three
\* remote calls.
C8_Witness ==
    /\ last.tool = "list_emails" /\ last.ret.kind = "json"
    /\ Len(last.ret.value) = 2 /\ Len(last.calls) = 3

C9_NoHeader(detail, name) ==
    ~detail.payload.headers.has
    \/ \A i \in 1..Len(detail.payload.headers.val) :
          detail.payload.headers.val[i].name /= name

C9_NoBody(detail) ==
    /\ ~(detail.payload.body.has /\ detail.payload.body.val.data.has
         /\ detail.payload.body.val.data.val /= <<>>)
    /\ \A i \in 1..Len(TopParts(detail.payload)) :
          ~IsPlainWithData(TopParts(detail.payload)[i])

C9_Undecodable(id) ==
    get_email_body(Some(Mailbox[id].payload)).kind = "raise"

C9_Represented(noBody) ==
    /\ (last.tool \in {"list_emails", "search_emails"} /\ last.ret.kind = "json")
       => \A i \in 1..Len(last.ret.value) :
            LET r == last.ret.value[i]
                detail == Mailbox[last.remote.val[i]]
            IN  /\ C9_NoHeader(detail, "Subject") => r.subject = ""
                /\ C9_NoHeader(detail, "From") => r.from = ""
                /\ C9_NoHeader(detail, "Date") => r.date = ""
                /\ C9_NoBody(detail) => r.body = noBody
                /\ (last.tool = "search_emails" /\ ~detail.labelIds.has)
                   => r.labels = <<>>
                /\ last.tool = "list_emails" => "labels" \notin DOMAIN r
    /\ (last.tool = "list_events" /\ last.ret.kind = "json")
       => \A i \in 1..Len(last.ret.value) :
            LET r == last.ret.value[i]
                event == Calendar[last.remote.val[i]]
            IN  \A k \in {"summary", "start", "end", "location"} :
                    ~event[k].has => r[k] = Absent
    /\ (last.tool \in {"list_emails", "search_emails", "list_events"}
        /\ last.ret.kind = "text")
       => \/ \E i \in 1..Len(last.calls) : last.calls[i].outcome /= "ok"
          \/ /\ last.tool /= "list_events"
             /\ \E i \in 1..NumMessages(last.remote) :
                    C9_Undecodable(last.remote.val[i])

C10_Fields ==
    {"summary", "location", "description", "start", "end", "attendees"}

C10_Sent(args, k) ==
    CASE k \in {"start", "end"} -> Some([dateTime |-> args[k].val,
                                         timeZone |-> "Asia/Seoul"])
      [] k = "attendees" ->
            Some([i \in 1..Len(args[k].val) |-> [email |-> args[k].val[i]]])
      [] OTHER -> args[k]

\* C10, as stated: the patch body of update_event has a key for summary,
\* location, description, start, end or attendees exactly when the caller
\* supplied that argument (an empty string or empty list included), with
\* the supplied value, start and end as date-time plus time zone.
C10_PatchIffSupplied ==
    (last.tool = "update_event" /\ last.calls /= <<>>)
    => \A k \in C10_Fields :
          LET body == last.calls[1].params.body IN
          /\ body[k].has <=> last.args[k].has
          /\ last.args[k].has => body[k] = C10_Sent(last.args, k)

=============================================================================
